---- MODULE Spec2Model ----
(***************************************************************************)
(* UbiSpec (mean-machine-gc/bspec): the Zod schemas that validate          *)
(* Lifecycle, Process and System documents, the decide/evolve convention   *)
(* of a decider, the reaction convention of a process manager, and the     *)
(* decision table derived from a Decision.                                 *)
(*                                                                         *)
(* Five specifications share the variables:                                *)
(*   Spec          a decider (or process manager) handling inputs          *)
(*   SpecTable     the decision table generated from a Decision            *)
(*   SpecValidate  a raw document parsed by the schema of its kind         *)
(*   SpecJoin      the events of an All trigger arriving at the runtime     *)
(*   SpecIndex     the index generated from a spec of the version registry  *)
(***************************************************************************)
EXTENDS Integers, Sequences, FiniteSets, TLC

VARIABLES
    unit,       \* the Decision or Reaction being executed / tabulated
    aggState,   \* the aggregate (or process manager) state
    truth,      \* names of the predicates that hold for the last input
    emitted,    \* events returned by the last decide / commands dispatched
    prior,      \* the aggregate state when the last command arrived
    cursor,     \* how many of the emitted events evolve has applied
    pc,         \* ready | decided | done
    table,      \* rows of the generated decision table
    doc,        \* the raw document handed to a schema, with its kind
    result,     \* the outcome of parsing doc
    tree,       \* the validated tree of an accepted document
    text,       \* the validated tree, serialized
    again,      \* the outcome of parsing the serialized tree
    join,       \* an All trigger with the events accumulated for it
    index       \* the index being generated from a spec of the registry

vars ==
    <<unit, aggState, truth, emitted, prior, cursor, pc, table, doc, result, tree, text,
      again, join, index>>

(***************************************************************************)
(* Bounds of the model.                                                    *)
(***************************************************************************)
MaxConstraints == 3
MaxThen == 3
MaxVersion == 2
MaxReactions == 2
MaxArrivals == 4
MaxRegistered == 3
MaxModules == 2
MaxFlows == 2
MaxDecisions == 2
MaxLen == 4

(***************************************************************************)
(* Strings and the patterns of src/schema/shared.ts.                       *)
(***************************************************************************)
Upper == {"A","B","C","D","E","F","G","H","I","J","K","L","M",
          "N","O","P","Q","R","S","T","U","V","W","X","Y","Z"}

Lower == {"a","b","c","d","e","f","g","h","i","j","k","l","m",
          "n","o","p","q","r","s","t","u","v","w","x","y","z"}

Digit == {"0","1","2","3","4","5","6","7","8","9"}

Char(s, i) == SubSeq(s, i, i)

\* /^[A-Z][a-zA-Z0-9]*$/
PASCAL_CASE(s) ==
    /\ Len(s) >= 1
    /\ Char(s, 1) \in Upper
    /\ \A i \in 2..Len(s) : Char(s, i) \in (Upper \cup Lower \cup Digit)

\* The bug of a hyphen inside the character class: /^[a-z][a-z0-9-]*$/
KEBAB_CASE_HyphenInClass(s) ==
    /\ Len(s) >= 1
    /\ Char(s, 1) \in Lower
    /\ \A i \in 2..Len(s) : Char(s, i) \in (Lower \cup Digit \cup {"-"})

\* /^[a-z][a-z0-9]*(-[a-z0-9]+)*$/
KEBAB_CASE(s) ==
    /\ Len(s) >= 1
    /\ Char(s, 1) \in Lower
    /\ \A i \in 2..Len(s) : Char(s, i) \in (Lower \cup Digit \cup {"-"})
    /\ \A i \in 2..Len(s) :
          Char(s, i) = "-" => (i < Len(s) /\ Char(s, i + 1) \in (Lower \cup Digit))

\* /^[A-Z][a-zA-Z0-9]* from [A-Z][a-zA-Z0-9]*$/
SourcedEventRe(s) ==
    \E i \in 2..(Len(s) - 6) :
        /\ SubSeq(s, i, i + 5) = " from "
        /\ PASCAL_CASE(SubSeq(s, 1, i - 1))
        /\ PASCAL_CASE(SubSeq(s, i + 6, Len(s)))

\* /^[A-Z][a-zA-Z0-9]* -> [A-Z][a-zA-Z0-9]*$/
TargetedCommandRe(s) ==
    \E i \in 2..(Len(s) - 4) :
        /\ SubSeq(s, i, i + 3) = " -> "
        /\ PASCAL_CASE(SubSeq(s, 1, i - 1))
        /\ PASCAL_CASE(SubSeq(s, i + 4, Len(s)))

(***************************************************************************)
(* Raw (parsed YAML / JSON) values.                                        *)
(***************************************************************************)
Undef == [t |-> "undefined"]
Str(s) == [t |-> "string", s |-> s]
Arr(items) == [t |-> "array", items |-> items]
Obj(f) == [t |-> "object", f |-> f]

IsStr(v) == v.t = "string"
IsArr(v) == v.t = "array"
IsObj(v) == v.t = "object"
Keys(v) == DOMAIN v.f
Get(v, k) == IF k \in DOMAIN v.f THEN v.f[k] ELSE Undef
AllItems(v, P(_)) == \A i \in 1..Len(v.items) : P(v.items[i])

\* An object without the keys whose value is undefined (a key left out).
Prune(f) == [k \in {x \in DOMAIN f : f[x] # Undef} |-> f[k]]

(***************************************************************************)
(* src/schema/shared.ts                                                    *)
(***************************************************************************)
PascalName(v) == IsStr(v) /\ PASCAL_CASE(v.s)

PredicateName(v) == IsStr(v) /\ KEBAB_CASE(v.s)

Expression(v) == IsStr(v) /\ Len(v.s) >= 1

PredicateMap(v) ==
    /\ IsObj(v)
    /\ \A k \in Keys(v) : KEBAB_CASE(k) /\ Expression(v.f[k])

InlinePredicate(v) ==
    /\ IsObj(v)
    /\ \A k \in Keys(v) : KEBAB_CASE(k) /\ Expression(v.f[k])
    /\ Cardinality(Keys(v)) = 1

\* The bug of accepting the inline form only, so that a bare name is refused.
PredicateEntryInlineOnly(v) == InlinePredicate(v)

PredicateEntry(v) == PredicateName(v) \/ InlinePredicate(v)

ConstraintList(v) ==
    IsArr(v) /\ AllItems(v, PredicateEntry) /\ Len(v.items) >= 1

AssertionEntry(v) ==
    /\ IsObj(v)
    /\ \A k \in Keys(v) : KEBAB_CASE(k) /\ Expression(v.f[k])
    /\ Cardinality(Keys(v)) = 1

AssertionList(v) ==
    IsArr(v) /\ AllItems(v, AssertionEntry) /\ Len(v.items) >= 1

OutcomeKeyed(v) == IsObj(v) /\ \A k \in Keys(v) : AssertionList(v.f[k])

OutcomeSpec(v) == AssertionList(v) \/ OutcomeKeyed(v)

(***************************************************************************)
(* Issues that abort a parse. A check a value of the right type fails      *)
(* (.regex(), .min(), .refine()) raises an issue and lets the parse go on; *)
(* a value of the wrong type, a missing required property, a key a strict  *)
(* object does not know, a key a record refuses, a value outside an enum   *)
(* or literal, and a union none or several of whose options go on, abort   *)
(* it: the .refine() of an enclosing schema is then not run.               *)
(***************************************************************************)
StringAborts(v) == ~IsStr(v)

InlinePredicateAborts(v) ==
    \/ ~IsObj(v)
    \/ \E k \in Keys(v) : ~KEBAB_CASE(k) \/ StringAborts(v.f[k])

PredicateEntryAborts(v) == IF IsStr(v) THEN FALSE ELSE InlinePredicateAborts(v)

ConstraintListAborts(v) ==
    \/ ~IsArr(v)
    \/ \E i \in 1..Len(v.items) : PredicateEntryAborts(v.items[i])

AssertionEntryAborts(v) ==
    \/ ~IsObj(v)
    \/ \E k \in Keys(v) : ~KEBAB_CASE(k) \/ StringAborts(v.f[k])

AssertionListAborts(v) ==
    \/ ~IsArr(v)
    \/ \E i \in 1..Len(v.items) : AssertionEntryAborts(v.items[i])

OutcomeKeyedAborts(v) ==
    \/ ~IsObj(v)
    \/ \E k \in Keys(v) : AssertionListAborts(v.f[k])

OutcomeSpecAborts(v) == AssertionListAborts(v) /\ OutcomeKeyedAborts(v)

(***************************************************************************)
(* Object schemas: an issue is a path with a message; a value is accepted  *)
(* when parsing it raises no issue.                                        *)
(***************************************************************************)
Issue(path, message) == [path |-> path, message |-> message]

\* One property of a z.object: required, or .optional().
Field(v, k, P(_), required) ==
    IF Get(v, k) = Undef
    THEN IF required THEN {Issue(k, "Required")} ELSE {}
    ELSE IF P(Get(v, k)) THEN {} ELSE {Issue(k, "Invalid")}

\* Whether parsing one property of a z.object aborts.
FieldAborts(v, k, A(_), required) ==
    IF Get(v, k) = Undef THEN required ELSE A(Get(v, k))

\* .strict(): a key the object schema does not declare.
Strict(v, known) ==
    IF Keys(v) \subseteq known THEN {} ELSE {Issue("", "Unrecognized key(s) in object")}

\* A property with .optional().default(d): the parsed value carries d when left out.
WithDefault(v, k, d) ==
    Obj([x \in Keys(v) \cup {k} |-> IF x = k /\ Get(v, k) = Undef THEN d ELSE v.f[x]])

AnyString(v) == IsStr(v)

(***************************************************************************)
(* src/schema/process/v1-0/v1-0.ts                                         *)
(***************************************************************************)
DeciderName(v) == PascalName(v)

EventName(v) == PascalName(v)

SourcedEvent(v) == IsStr(v) /\ SourcedEventRe(v.s)

TargetedCommand(v) == IsStr(v) /\ TargetedCommandRe(v.s)

WhenScalar(v) == EventName(v)

WhenAny(v) ==
    /\ IsObj(v) /\ Keys(v) = {"any"}
    /\ IsArr(v.f["any"]) /\ AllItems(v.f["any"], EventName)
    /\ Len(v.f["any"].items) >= 2

\* Entries of either form, side by side.
WhenAllCrossEitherForm(v) ==
    /\ IsObj(v) /\ Keys(v) = {"all"}
    /\ IsArr(v.f["all"])
    /\ \A i \in 1..Len(v.f["all"].items) :
          SourcedEvent(v.f["all"].items[i]) \/ EventName(v.f["all"].items[i])
    /\ Len(v.f["all"].items) >= 2

WhenAllCross(v) ==
    /\ IsObj(v) /\ Keys(v) = {"all"}
    /\ IsArr(v.f["all"]) /\ AllItems(v.f["all"], SourcedEvent)
    /\ Len(v.f["all"].items) >= 2

WhenAllShared(v) ==
    /\ IsObj(v) /\ Keys(v) = {"all"}
    /\ IsArr(v.f["all"]) /\ AllItems(v.f["all"], EventName)
    /\ Len(v.f["all"].items) >= 2

WhenSpec(v) == WhenScalar(v) \/ WhenAny(v) \/ WhenAllCross(v) \/ WhenAllShared(v)

ConditionalCommand(v) ==
    /\ IsObj(v)
    /\ \A k \in Keys(v) : TargetedCommandRe(k) /\ ConstraintList(v.f[k])
    /\ Cardinality(Keys(v)) = 1

CommandSpec(v) == TargetedCommand(v) \/ ConditionalCommand(v)

ThenSpec(v) ==
    \/ TargetedCommand(v)
    \/ IsArr(v) /\ AllItems(v, CommandSpec) /\ Len(v.items) >= 1

TriggerType(v) == IsStr(v) /\ v.s \in {"automated", "policy"}

WhenAnyAborts(v) ==
    \/ ~IsObj(v) \/ Keys(v) # {"any"}
    \/ ~IsArr(v.f["any"])
    \/ \E i \in 1..Len(v.f["any"].items) : StringAborts(v.f["any"].items[i])

WhenAllCrossAborts(v) ==
    \/ ~IsObj(v) \/ Keys(v) # {"all"}
    \/ ~IsArr(v.f["all"])
    \/ \E i \in 1..Len(v.f["all"].items) : StringAborts(v.f["all"].items[i])

WhenAllSharedAborts(v) ==
    \/ ~IsObj(v) \/ Keys(v) # {"all"}
    \/ ~IsArr(v.f["all"])
    \/ \E i \in 1..Len(v.f["all"].items) : StringAborts(v.f["all"].items[i])

\* A union none of whose options accepts the value goes on with the issues of the
\* one option that did not abort, and aborts when there is no such option or several.
WhenSpecAborts(v) ==
    /\ ~WhenSpec(v)
    /\ Cardinality({o \in {"WhenScalar", "WhenAny", "WhenAllCross", "WhenAllShared"} :
                       \/ o = "WhenScalar" /\ ~StringAborts(v)
                       \/ o = "WhenAny" /\ ~WhenAnyAborts(v)
                       \/ o = "WhenAllCross" /\ ~WhenAllCrossAborts(v)
                       \/ o = "WhenAllShared" /\ ~WhenAllSharedAborts(v)}) # 1

ConditionalCommandAborts(v) ==
    \/ ~IsObj(v)
    \/ \E k \in Keys(v) : ~TargetedCommandRe(k) \/ ConstraintListAborts(v.f[k])

CommandSpecAborts(v) == IF IsStr(v) THEN FALSE ELSE ConditionalCommandAborts(v)

ThenSpecAborts(v) ==
    IF IsStr(v) THEN FALSE
    ELSE \/ ~IsArr(v)
         \/ \E i \in 1..Len(v.items) : CommandSpecAborts(v.items[i])

TriggerTypeAborts(v) == ~TriggerType(v)

ReactionKeys ==
    {"When", "From", "correlate", "trigger", "actor", "And", "Then", "Outcome"}

ReactionShape(v) ==
    IF ~IsObj(v) THEN {Issue("", "Expected object")}
    ELSE Field(v, "When", WhenSpec, TRUE)
         \cup Field(v, "From", DeciderName, FALSE)
         \cup Field(v, "correlate", AnyString, FALSE)
         \cup Field(v, "trigger", TriggerType, FALSE)
         \cup Field(v, "actor", AnyString, FALSE)
         \cup Field(v, "And", ConstraintList, FALSE)
         \cup Field(v, "Then", ThenSpec, TRUE)
         \cup Field(v, "Outcome", OutcomeSpec, TRUE)
         \cup Strict(v, ReactionKeys)

ReactionAborts(v) ==
    \/ ~IsObj(v)
    \/ FieldAborts(v, "When", WhenSpecAborts, TRUE)
    \/ FieldAborts(v, "From", StringAborts, FALSE)
    \/ FieldAborts(v, "correlate", StringAborts, FALSE)
    \/ FieldAborts(v, "trigger", TriggerTypeAborts, FALSE)
    \/ FieldAborts(v, "actor", StringAborts, FALSE)
    \/ FieldAborts(v, "And", ConstraintListAborts, FALSE)
    \/ FieldAborts(v, "Then", ThenSpecAborts, TRUE)
    \/ FieldAborts(v, "Outcome", OutcomeSpecAborts, TRUE)
    \/ ~(Keys(v) \subseteq ReactionKeys)

\* The bug of a trigger without .default(): the validated tree lacks it when left out.
ReactionParsedNoDefault(v) == v

ReactionParsed(v) == WithDefault(v, "trigger", Str("automated"))

\* The bug of testing only that actor is given, not that it is non-empty.
ReactionRefineDefinedOnly(r) ==
    \/ Get(r, "trigger") # Str("policy")
    \/ Get(r, "actor") # Undef

\* (r) => r.trigger !== 'policy' || (r.actor !== undefined && r.actor.length > 0)
ReactionRefine(r) ==
    \/ Get(r, "trigger") # Str("policy")
    \/ (Get(r, "actor") # Undef /\ Len(Get(r, "actor").s) > 0)

ReactionIssues(v) ==
    ReactionShape(v)
    \cup (IF ReactionAborts(v) \/ ReactionRefine(ReactionParsed(v)) THEN {}
          ELSE {Issue("actor", "actor is required when trigger is policy.")})

Reaction(v) == ReactionIssues(v) = {}

ProcessLiteral(v) == v = Str("process/v1.0")

DeciderList(v) == IsArr(v) /\ AllItems(v, DeciderName) /\ Len(v.items) >= 1

StateMap(v) == IsObj(v) /\ \A k \in Keys(v) : IsStr(v.f[k])

ReactionList(v) == IsArr(v) /\ AllItems(v, Reaction) /\ Len(v.items) >= 1

ProcessKeys ==
    {"ubispec", "process", "reacts_to", "emits_to", "model", "state", "common",
     "reactions"}

ProcessSpecIssues(v) ==
    IF ~IsObj(v) THEN {Issue("", "Expected object")}
    ELSE Field(v, "ubispec", ProcessLiteral, TRUE)
         \cup Field(v, "process", PascalName, TRUE)
         \cup Field(v, "reacts_to", DeciderList, TRUE)
         \cup Field(v, "emits_to", DeciderList, TRUE)
         \cup Field(v, "model", AnyString, TRUE)
         \cup Field(v, "state", StateMap, FALSE)
         \cup Field(v, "common", PredicateMap, FALSE)
         \cup Field(v, "reactions", ReactionList, TRUE)
         \cup Strict(v, ProcessKeys)

ProcessSpec(v) == ProcessSpecIssues(v) = {}

\* The validated tree of an accepted Process document: each reaction with its default.
ProcessParsed(v) ==
    Obj([k \in Keys(v) |->
            IF k = "reactions"
            THEN Arr([i \in 1..Len(v.f[k].items) |-> ReactionParsed(v.f[k].items[i])])
            ELSE v.f[k]])

(***************************************************************************)
(* Lifecycle schema (src/schema/lifecycle/next/next.docs.md, from line 160)*)
(***************************************************************************)
ConditionalEvent(v) ==
    /\ IsObj(v)
    /\ \A k \in Keys(v) : PASCAL_CASE(k) /\ ConstraintList(v.f[k])
    /\ Cardinality(Keys(v)) = 1

EventSpec(v) == EventName(v) \/ ConditionalEvent(v)

LifecycleThenSpec(v) ==
    \/ EventName(v)
    \/ IsArr(v) /\ AllItems(v, EventSpec) /\ Len(v.items) >= 1

DecisionKeys == {"When", "actor", "And", "Then", "Outcome"}

DecisionIssues(v) ==
    IF ~IsObj(v) THEN {Issue("", "Expected object")}
    ELSE Field(v, "When", PascalName, TRUE)
         \cup Field(v, "actor", AnyString, FALSE)
         \cup Field(v, "And", ConstraintList, FALSE)
         \cup Field(v, "Then", LifecycleThenSpec, TRUE)
         \cup Field(v, "Outcome", OutcomeSpec, TRUE)
         \cup Strict(v, DecisionKeys)

Decision(v) == DecisionIssues(v) = {}

LifecycleLiteral(v) == v = Str("lifecycle/v1.0")

DecisionList(v) == IsArr(v) /\ AllItems(v, Decision) /\ Len(v.items) >= 1

LifecycleKeys == {"ubispec", "decider", "identity", "model", "common", "lifecycle"}

LifecycleSpecIssues(v) ==
    IF ~IsObj(v) THEN {Issue("", "Expected object")}
    ELSE Field(v, "ubispec", LifecycleLiteral, TRUE)
         \cup Field(v, "decider", PascalName, TRUE)
         \cup Field(v, "identity", AnyString, TRUE)
         \cup Field(v, "model", AnyString, TRUE)
         \cup Field(v, "common", PredicateMap, FALSE)
         \cup Field(v, "lifecycle", DecisionList, TRUE)
         \cup Strict(v, LifecycleKeys)

LifecycleSpec(v) == LifecycleSpecIssues(v) = {}

\* The validated tree of an accepted Lifecycle document: the properties given, no
\* property of the schema has a default.
LifecycleParsed(v) == Obj([k \in Keys(v) \cap LifecycleKeys |-> v.f[k]])

(***************************************************************************)
(* System schema (src/schema/spec.ts, from line 60): Flow                  *)
(***************************************************************************)
FlowTrigger(v) == IsStr(v) /\ v.s \in {"automated", "policy"}

FlowKeys == {"event", "from", "triggers", "on", "trigger", "actor"}

FlowShape(v) ==
    IF ~IsObj(v) THEN {Issue("", "Expected object")}
    ELSE Field(v, "event", PascalName, TRUE)
         \cup Field(v, "from", PascalName, TRUE)
         \cup Field(v, "triggers", PascalName, TRUE)
         \cup Field(v, "on", PascalName, TRUE)
         \cup Field(v, "trigger", FlowTrigger, FALSE)
         \cup Field(v, "actor", AnyString, FALSE)
         \cup Strict(v, FlowKeys)

FlowTriggerAborts(v) == ~FlowTrigger(v)

FlowAborts(v) ==
    \/ ~IsObj(v)
    \/ FieldAborts(v, "event", StringAborts, TRUE)
    \/ FieldAborts(v, "from", StringAborts, TRUE)
    \/ FieldAborts(v, "triggers", StringAborts, TRUE)
    \/ FieldAborts(v, "on", StringAborts, TRUE)
    \/ FieldAborts(v, "trigger", FlowTriggerAborts, FALSE)
    \/ FieldAborts(v, "actor", StringAborts, FALSE)
    \/ ~(Keys(v) \subseteq FlowKeys)

FlowParsed(v) == WithDefault(v, "trigger", Str("automated"))

\* (f) => f.trigger !== 'policy' || (f.actor !== undefined && f.actor.length > 0)
FlowRefine(f) ==
    \/ Get(f, "trigger") # Str("policy")
    \/ (Get(f, "actor") # Undef /\ Len(Get(f, "actor").s) > 0)

FlowIssues(v) ==
    FlowShape(v)
    \cup (IF FlowAborts(v) \/ FlowRefine(FlowParsed(v)) THEN {}
          ELSE {Issue("actor", "actor is required when trigger is policy.")})

Flow(v) == FlowIssues(v) = {}

(***************************************************************************)
(* System schema (src/schema/spec.ts): Module and SystemSpec               *)
(***************************************************************************)
ModuleDeciders(v) == IsArr(v) /\ AllItems(v, PascalName) /\ Len(v.items) >= 1

ModuleKeys == {"name", "context", "deciders", "description"}

ModuleIssues(v) ==
    IF ~IsObj(v) THEN {Issue("", "Expected object")}
    ELSE Field(v, "name", PascalName, TRUE)
         \cup Field(v, "context", PascalName, TRUE)
         \cup Field(v, "deciders", ModuleDeciders, TRUE)
         \cup Field(v, "description", AnyString, FALSE)
         \cup Strict(v, ModuleKeys)

Module(v) == ModuleIssues(v) = {}

SystemLiteral(v) == v = Str("system/v1.0")

ModuleList(v) == IsArr(v) /\ AllItems(v, Module) /\ Len(v.items) >= 1

FlowList(v) == IsArr(v) /\ AllItems(v, Flow)

SystemKeys == {"ubispec", "system", "description", "modules", "flows"}

SystemShape(v) ==
    IF ~IsObj(v) THEN {Issue("", "Expected object")}
    ELSE Field(v, "ubispec", SystemLiteral, TRUE)
         \cup Field(v, "system", PascalName, TRUE)
         \cup Field(v, "description", AnyString, FALSE)
         \cup Field(v, "modules", ModuleList, TRUE)
         \cup Field(v, "flows", FlowList, FALSE)
         \cup Strict(v, SystemKeys)

ModuleDecidersAborts(v) ==
    \/ ~IsArr(v)
    \/ \E i \in 1..Len(v.items) : StringAborts(v.items[i])

ModuleAborts(v) ==
    \/ ~IsObj(v)
    \/ FieldAborts(v, "name", StringAborts, TRUE)
    \/ FieldAborts(v, "context", StringAborts, TRUE)
    \/ FieldAborts(v, "deciders", ModuleDecidersAborts, TRUE)
    \/ FieldAborts(v, "description", StringAborts, FALSE)
    \/ ~(Keys(v) \subseteq ModuleKeys)

SystemLiteralAborts(v) == ~SystemLiteral(v)

ModuleListAborts(v) ==
    \/ ~IsArr(v)
    \/ \E i \in 1..Len(v.items) : ModuleAborts(v.items[i])

FlowListAborts(v) ==
    \/ ~IsArr(v)
    \/ \E i \in 1..Len(v.items) : FlowAborts(v.items[i])

SystemAborts(v) ==
    \/ ~IsObj(v)
    \/ FieldAborts(v, "ubispec", SystemLiteralAborts, TRUE)
    \/ FieldAborts(v, "system", StringAborts, TRUE)
    \/ FieldAborts(v, "description", StringAborts, FALSE)
    \/ FieldAborts(v, "modules", ModuleListAborts, TRUE)
    \/ FieldAborts(v, "flows", FlowListAborts, FALSE)
    \/ ~(Keys(v) \subseteq SystemKeys)

\* flows: z.array(Flow).optional().default([])
SystemParsed(v) ==
    LET w == WithDefault(v, "flows", Arr(<<>>))
    IN  Obj([k \in Keys(w) |->
                IF k = "flows"
                THEN Arr([i \in 1..Len(w.f[k].items) |-> FlowParsed(w.f[k].items[i])])
                ELSE w.f[k]])

\* s.modules.map((m) => m.name)
moduleNames(s) == [i \in 1..Len(s.f.modules.items) |-> s.f.modules.items[i].f.name.s]

SeqRange(q) == {q[i] : i \in 1..Len(q)}

\* The bug of testing the source of a flow only.
FlowsReferenceModulesFromOnly(s) ==
    \A i \in 1..Len(s.f.flows.items) :
        s.f.flows.items[i].f.from.s \in SeqRange(moduleNames(s))

\* s.flows.every((f) => moduleNames.has(f.from) && moduleNames.has(f.on))
FlowsReferenceModules(s) ==
    \A i \in 1..Len(s.f.flows.items) :
        /\ s.f.flows.items[i].f.from.s \in SeqRange(moduleNames(s))
        /\ s.f.flows.items[i].f.on.s \in SeqRange(moduleNames(s))

\* The bug of building the set from the modules instead of from their names.
ModuleNamesUniqueByEntry(s) ==
    Cardinality(SeqRange(s.f.modules.items)) = Len(s.f.modules.items)

\* new Set(moduleNames).size === moduleNames.length
ModuleNamesUnique(s) ==
    Cardinality(SeqRange(moduleNames(s))) = Len(moduleNames(s))

\* The bug of some() where every() is meant.
FlowsConnectDifferentModulesSome(s) ==
    \/ Len(s.f.flows.items) = 0
    \/ \E i \in 1..Len(s.f.flows.items) :
          s.f.flows.items[i].f.from # s.f.flows.items[i].f.on

\* s.flows.every((f) => f.from !== f.on)
FlowsConnectDifferentModules(s) ==
    \A i \in 1..Len(s.f.flows.items) :
        s.f.flows.items[i].f.from # s.f.flows.items[i].f.on

UndeclaredModuleIssue ==
    Issue("flows", "Every flow must reference modules declared in the modules list.")

DuplicateModuleIssue == Issue("modules", "Module names must be unique.")

SelfFlowIssue ==
    Issue("flows", "Flows must connect different modules. Use a process spec for within-module coordination.")

\* The bug of stopping at the first refinement that fails.
SystemSpecIssuesFailFast(v) ==
    SystemShape(v)
    \cup (IF SystemAborts(v) THEN {}
          ELSE IF ~FlowsReferenceModules(SystemParsed(v)) THEN {UndeclaredModuleIssue}
          ELSE IF ~ModuleNamesUnique(SystemParsed(v)) THEN {DuplicateModuleIssue}
          ELSE IF ~FlowsConnectDifferentModules(SystemParsed(v)) THEN {SelfFlowIssue}
          ELSE {})

\* The three refinements are chained: each runs unless the parse has aborted.
SystemSpecIssues(v) ==
    SystemShape(v)
    \cup (IF SystemAborts(v) THEN {}
          ELSE (IF FlowsReferenceModules(SystemParsed(v)) THEN {} ELSE {UndeclaredModuleIssue})
               \cup (IF ModuleNamesUnique(SystemParsed(v)) THEN {} ELSE {DuplicateModuleIssue})
               \cup (IF FlowsConnectDifferentModules(SystemParsed(v)) THEN {}
                     ELSE {SelfFlowIssue}))

SystemSpec(v) == SystemSpecIssues(v) = {}

(***************************************************************************)
(* Documents handed to the schemas: the examples of the repository's       *)
(* guides and variations of them, one field at a time.                     *)
(***************************************************************************)
Assertions(name, scope) == Arr(<<Obj(name :> Str(scope))>>)

Conditions(name, scope) == Arr(<<Obj(name :> Str(scope))>>)

WhenAllCrossDoc ==
    Obj([all |-> Arr(<<Str("PaymentConfirmed from Payment"),
                       Str("InventoryReserved from Inventory")>>)])

WhenAllUndeclaredDoc ==
    Obj([all |-> Arr(<<Str("PaymentConfirmed from Payment"),
                       Str("ParcelPacked from Shipping")>>)])

WhenAllSharedDoc == Obj([all |-> Arr(<<Str("OrderPlaced"), Str("OrderApproved")>>)])

WhenAnyDoc == Obj([any |-> Arr(<<Str("OrderPlaced"), Str("OrderConfirmed")>>)])

GoodWhen == {Str("OrderCancelled"), WhenAnyDoc, WhenAllCrossDoc, WhenAllSharedDoc}

BadWhen == {Str("orderCancelled")}

ThenListDoc ==
    Arr(<<Str("ReleaseInventory -> Inventory"),
          Obj("InitiateRefund -> Payment" :> Conditions("payment-was-captured", "rm.ctx"))>>)

ThenUndeclaredDoc ==
    Arr(<<Str("ReleaseInventory -> Fulfillment"),
          Obj("InitiateRefund -> Payment" :> Conditions("payment-was-captured", "rm.ctx"))>>)

ThenCondUndeclaredDoc ==
    Arr(<<Str("ReleaseInventory -> Inventory"),
          Obj("SendNotification -> Notification" :> Conditions("customer-opted-in", "rm.ctx"))>>)

GoodThen == {Str("ReleaseInventory -> Inventory"), ThenListDoc}

BadThen == {Str("ReleaseInventory")}

OutcomeKeyedDoc ==
    Obj("_always" :> Assertions("inventory-released", "om.commands")
        @@ "InitiateRefund -> Payment" :> Assertions("refund-amount-correct", "om.commands"))

OutcomeDanglingDoc ==
    Obj("_always" :> Assertions("inventory-released", "om.commands")
        @@ "CancelShipment -> Fulfillment" :> Assertions("shipment-cancelled", "om.commands"))

GoodOutcome == {Assertions("inventory-released", "om.commands"), OutcomeKeyedDoc}

ReactionDocs ==
    { Obj(Prune([When |-> w, From |-> f, correlate |-> c, trigger |-> t, actor |-> a,
                 Then |-> th, Outcome |-> o])) :
        w \in GoodWhen \cup BadWhen,
        f \in {Undef, Str("Order")},
        c \in {Undef, Str("orderId")},
        t \in {Undef, Str("automated"), Str("policy"), Str("manual")},
        a \in {Undef, Str(""), Str("Operator")},
        th \in GoodThen \cup BadThen,
        o \in GoodOutcome \cup {OutcomeDanglingDoc, Undef} }

\* Reactions that differ in the shape of their trigger only.
WhenAnyRepeatedDoc == Obj([any |-> Arr(<<Str("OrderPlaced"), Str("OrderPlaced")>>)])

WhenAnySingleDoc == Obj([any |-> Arr(<<Str("OrderPlaced")>>)])

WhenAllMixedDoc ==
    Obj([all |-> Arr(<<Str("PaymentConfirmed from Payment"), Str("InventoryReserved")>>)])

WhenAnyAndAllDoc ==
    Obj([any |-> Arr(<<Str("OrderPlaced"), Str("OrderConfirmed")>>),
         all |-> Arr(<<Str("OrderPlaced"), Str("OrderApproved")>>)])

WhenAllOtherKeyDoc ==
    Obj([all |-> Arr(<<Str("OrderPlaced"), Str("OrderApproved")>>),
         correlate |-> Str("orderId")])

TriggerShapes ==
    {WhenAnyDoc, WhenAnyRepeatedDoc, WhenAnySingleDoc, WhenAllCrossDoc, WhenAllSharedDoc,
     WhenAllMixedDoc, WhenAnyAndAllDoc, WhenAllOtherKeyDoc}

ReactionTriggerDocs ==
    { Obj([When |-> w, From |-> Str("Order"), correlate |-> Str("orderId"),
           Then |-> Str("ReleaseInventory -> Inventory"),
           Outcome |-> Assertions("inventory-released", "om.commands")]) :
        w \in TriggerShapes }

\* The ApproveRegistry decision of src/guide/example-artifacts.md, and variations.
DecisionThenListDoc ==
    Arr(<<Str("RegistryApproved"),
          Obj("PreviousRegistryArchived" :> Conditions("has-active-registry", "dm.ctx"))>>)

DecisionOutcomeKeyedDoc ==
    Obj("_always" :> Assertions("state-is-active", "om.state")
        @@ "PreviousRegistryArchived" :> Assertions("previous-deactivated", "om.state"))

DecisionOutcomeDanglingDoc ==
    Obj("_always" :> Assertions("state-is-active", "om.state")
        @@ "RegistryRejected" :> Assertions("rejection-recorded", "om.state"))

DecisionDocs ==
    { Obj(Prune([When |-> w, actor |-> a, And |-> c, Then |-> th, Outcome |-> o])) :
        w \in {Str("ApproveRegistry"), Str("approve-registry")},
        a \in {Undef, Str("Reviewer")},
        c \in {Undef, Arr(<<Str("registry-is-submitted"),
                            Obj("reviewer-is-authorised" :> Str("dm.ctx"))>>)},
        th \in {Str("RegistryApproved"), DecisionThenListDoc},
        o \in {Assertions("state-is-active", "om.state"), DecisionOutcomeKeyedDoc,
               DecisionOutcomeDanglingDoc} }

FlowDocs ==
    { Obj(Prune([event |-> Str("RegistryApproved"), from |-> Str("RegistryManagement"),
                 triggers |-> c, on |-> o,
                 trigger |-> t, actor |-> a])) :
        c \in {Str("ActivateLaboratory"), Undef},
        o \in {Str("LaboratoryManagement"), Str("laboratory")},
        t \in {Undef, Str("automated"), Str("policy"), Str("manual")},
        a \in {Undef, Str(""), Str("Operator")} }

\* Reactions of a Process document: each is accepted by the Reaction schema. The
\* OrderCancelled reaction, with its trigger varied and with its Then varied.
ProcessReactionDocs ==
    { Obj(Prune([When |-> wt[1], From |-> wt[2], correlate |-> wt[3],
                 Then |-> wt[4], Outcome |-> Assertions("inventory-released", "om.commands")])) :
        wt \in { <<Str("OrderCancelled"), Str("Order"), Undef, th>> :
                    th \in {Str("ReleaseInventory -> Inventory"), ThenListDoc,
                            ThenUndeclaredDoc, ThenCondUndeclaredDoc} }
               \cup
               { <<wf[1], wf[2], wf[3], Str("ReleaseInventory -> Inventory")>> :
                    wf \in { <<Str("OrderCancelled"), Str("Warehouse"), Undef>>,
                             <<Str("OrderCancelled"), Undef, Undef>>,
                             <<WhenAllCrossDoc, Undef, Str("orderId")>>,
                             <<WhenAllUndeclaredDoc, Undef, Str("orderId")>>,
                             <<WhenAllSharedDoc, Str("Order"), Str("orderId")>> } } }

ReactsToDocs == {Arr(<<Str("Order"), Str("Payment"), Str("Inventory")>>)}

EmitsToDocs ==
    {Arr(<<Str("Inventory"), Str("Payment")>>),
     Arr(<<Str("Inventory"), Str("Payment"), Str("Fulfillment"), Str("Notification")>>)}

ProcessDocs ==
    { Obj([ubispec |-> Str("process/v1.0"), process |-> Str("OrderFulfillmentManager"),
           reacts_to |-> r, emits_to |-> e, model |-> Str("./model.ts"),
           reactions |-> Arr(rs)]) :
        r \in ReactsToDocs,
        e \in EmitsToDocs,
        rs \in UNION {[1..n -> ProcessReactionDocs] : n \in 1..MaxReactions} }

\* The modules and flows of a System document (src/schema/spec.ts, lines 157-169).
ModuleDoc(name, context, deciders) ==
    Obj([name |-> Str(name), context |-> Str(context), deciders |-> Arr(deciders)])

SystemModuleDocs ==
    { ModuleDoc("RegistryManagement", "AccreditationGovernance",
                <<Str("Registry"), Str("Profile"), Str("Comment")>>),
      ModuleDoc("RegistryManagement", "LaboratoryOperations", <<Str("Registry")>>),
      ModuleDoc("LaboratoryManagement", "LaboratoryOperations", <<Str("Laboratory")>>),
      ModuleDoc("LaboratoryManagement", "LaboratoryOperations", <<>>) }

FlowDoc(from, on, trigger) ==
    Obj(Prune([event |-> Str("RegistryApproved"), from |-> Str(from),
               triggers |-> Str("ActivateLaboratory"), on |-> Str(on),
               trigger |-> trigger]))

SystemFlowDocs ==
    { FlowDoc("RegistryManagement", "LaboratoryManagement", Undef),
      FlowDoc("LaboratoryManagement", "RegistryManagement", Str("automated")),
      FlowDoc("RegistryManagement", "RegistryManagement", Undef),
      FlowDoc("RegistryManagement", "Billing", Undef),
      FlowDoc("Billing", "LaboratoryManagement", Undef),
      FlowDoc("RegistryManagement", "LaboratoryManagement", Str("policy")) }

SystemDocs ==
    { Obj(Prune([ubispec |-> Str("system/v1.0"), system |-> sys,
                 modules |-> Arr(ms), flows |-> fs])) :
        sys \in {Str("SILNAS"), Str("silnas"), Undef},
        ms \in UNION {[1..n -> SystemModuleDocs] : n \in 1..MaxModules},
        fs \in {Undef} \cup {Arr(q) : q \in UNION {[1..n -> SystemFlowDocs] : n \in 0..MaxFlows}} }

\* Lifecycle documents: the Order lifecycle of src/docs/guide/getting-started.md
\* ("Your First Lifecycle"), with names only and with detail added.
BareNames(names) == Arr([i \in 1..Len(names) |-> Str(names[i])])

PlaceOrderNamesOnly ==
    Obj([When |-> Str("PlaceOrder"), actor |-> Str("Customer"),
         And |-> BareNames(<<"order-is-draft", "has-lines", "all-products-in-stock">>),
         Then |-> Str("OrderPlaced"),
         Outcome |-> BareNames(<<"state-is-placed", "placed-at-recorded">>)])

CancelOrderNamesOnly ==
    Obj([When |-> Str("CancelOrder"), actor |-> Str("Customer"),
         And |-> BareNames(<<"is-cancellable">>),
         Then |-> Str("OrderCancelled"),
         Outcome |-> BareNames(<<"state-is-cancelled">>)])

LifecycleHeader(common, decisions) ==
    Obj(Prune([ubispec |-> Str("lifecycle/v1.0"), decider |-> Str("Order"),
               identity |-> Str("orderId"), model |-> Str("./model.ts"),
               common |-> common, lifecycle |-> Arr(decisions)]))

FirstLifecycleDoc == LifecycleHeader(Undef, <<PlaceOrderNamesOnly, CancelOrderNamesOnly>>)

LifecycleDecisionDocs ==
    { PlaceOrderNamesOnly, CancelOrderNamesOnly,
      Obj([When |-> Str("PlaceOrder"),
           And |-> BareNames(<<"order-is-draft", "has-lines">>),
           Then |-> Str("OrderPlaced"),
           Outcome |-> Assertions("state-is-placed", "om.state")]),
      Obj([When |-> Str("PlaceOrder"),
           And |-> Arr(<<Obj("order-is-draft" :> Str("dm.state"))>>),
           Then |-> Str("OrderPlaced"),
           Outcome |-> Assertions("state-is-placed", "om.state")]),
      Obj([When |-> Str("CancelOrder"),
           Then |-> Arr(<<Str("OrderCancelled"),
                          Obj("RefundRequested" :> BareNames(<<"payment-was-captured">>))>>),
           Outcome |-> Assertions("state-is-cancelled", "om.state")]),
      Obj([When |-> Str("CancelOrder"),
           And |-> BareNames(<<"order-is-draft">>),
           Then |-> Str("OrderCancelled"),
           Outcome |-> Assertions("state-is-cancelled", "om.state")]) }

CommonDocs ==
    { Undef,
      Obj("order-is-draft" :> Str("dm.state.status.kind === 'Draft'")),
      Obj("order-is-draft" :> Str("dm.state") @@ "has-lines" :> Str("dm.state")
          @@ "payment-was-captured" :> Str("dm.ctx")) }

LifecycleDocs ==
    { LifecycleHeader(c, ds) :
        c \in CommonDocs,
        ds \in UNION {[1..n -> LifecycleDecisionDocs] : n \in 1..MaxDecisions} }

\* The version the schema reference of the next Lifecycle schema gives for ubispec.
NextDocumentedUbispec == "lifecycle/v1.1"

\* The PlaceOrder decision of the guide with its outcome written inline.
PlaceOrderInlineOutcome ==
    Obj([When |-> Str("PlaceOrder"),
         And |-> BareNames(<<"order-is-draft", "has-lines">>),
         Then |-> Str("OrderPlaced"),
         Outcome |-> Assertions("state-is-placed", "om.state")])

\* One lifecycle, declaring the stable and the documented version.
LifecycleVersionDocs ==
    { Obj([LifecycleHeader(Undef, <<PlaceOrderInlineOutcome>>).f EXCEPT !["ubispec"] = Str(u)]) :
        u \in {"lifecycle/v1.0", NextDocumentedUbispec} }

\* A lifecycle whose second decision has conditional Then entries only.
CancelOrderAllConditional ==
    Obj([When |-> Str("CancelOrder"),
         Then |-> Arr(<<Obj("RefundRequested" :> Conditions("payment-was-captured", "dm.ctx")),
                        Obj("CustomerNotified" :> Conditions("customer-opted-in", "dm.ctx"))>>),
         Outcome |-> Assertions("state-is-cancelled", "om.state")])

AllConditionalLifecycleDoc ==
    LifecycleHeader(Undef, <<PlaceOrderInlineOutcome, CancelOrderAllConditional>>)

\* Strings handed to PascalName and PredicateName: every string of at most MaxLen
\* characters over an upper-case letter, a lower-case letter, a digit, a hyphen
\* and a character of neither pattern.
IdentAlphabet == {"A", "b", "7", "-", "_"}

RECURSIVE StringsOfLen(_)
StringsOfLen(n) ==
    IF n = 0 THEN {""} ELSE {s \o c : s \in StringsOfLen(n - 1), c \in IdentAlphabet}

IdentStrings == UNION {StringsOfLen(n) : n \in 0..MaxLen}

(***************************************************************************)
(* SpecValidate: a document is handed to the schema of its kind.           *)
(***************************************************************************)
Idle == [status |-> "idle"]

NoDoc == [kind |-> "none"]

NoJoin == [status |-> "none"]

NoIndex == [status |-> "none"]

Verdict(issues) ==
    [status |-> IF issues = {} THEN "accepted" ELSE "rejected", issues |-> issues]

(***************************************************************************)
(* Serialization: JSON.stringify writes a tree as text, here its tokens,   *)
(* leaving out the properties whose value is undefined; JSON.parse reads   *)
(* the text back, the last of two members of one key winning.              *)
(***************************************************************************)
Tok(kind, s) == [kind |-> kind, s |-> s]

RECURSIVE Flatten(_)
Flatten(seqs) == IF seqs = <<>> THEN <<>> ELSE Head(seqs) \o Flatten(Tail(seqs))

RECURSIVE SetToSeq(_)
SetToSeq(S) ==
    IF S = {} THEN <<>>
    ELSE LET x == CHOOSE y \in S : TRUE IN <<x>> \o SetToSeq(S \ {x})

RECURSIVE stringify(_)
stringify(v) ==
    IF IsStr(v) THEN <<Tok("string", v.s)>>
    ELSE IF IsArr(v)
    THEN <<Tok("[", "")>>
         \o Flatten([i \in 1..Len(v.items) |-> stringify(v.items[i])])
         \o <<Tok("]", "")>>
    ELSE LET ks == SetToSeq({k \in Keys(v) : v.f[k] # Undef})
         IN  <<Tok("{", "")>>
             \o Flatten([i \in 1..Len(ks) |-> <<Tok("key", ks[i])>> \o stringify(v.f[ks[i]])])
             \o <<Tok("}", "")>>

\* The object of a sequence of <<key, value>> members.
FromMembers(ms) ==
    Obj([k \in {ms[i][1] : i \in 1..Len(ms)} |->
            ms[CHOOSE i \in 1..Len(ms) :
                  ms[i][1] = k /\ \A j \in (i + 1)..Len(ms) : ms[j][1] # k][2]])

RECURSIVE parseValue(_)
RECURSIVE parseItems(_, _)
RECURSIVE parseMembers(_, _)
parseValue(ts) ==
    IF Head(ts).kind = "string" THEN [value |-> Str(Head(ts).s), rest |-> Tail(ts)]
    ELSE IF Head(ts).kind = "[" THEN parseItems(Tail(ts), <<>>)
    ELSE parseMembers(Tail(ts), <<>>)

parseItems(ts, acc) ==
    IF Head(ts).kind = "]" THEN [value |-> Arr(acc), rest |-> Tail(ts)]
    ELSE LET r == parseValue(ts) IN parseItems(r.rest, Append(acc, r.value))

parseMembers(ts, acc) ==
    IF Head(ts).kind = "}" THEN [value |-> FromMembers(acc), rest |-> Tail(ts)]
    ELSE LET r == parseValue(Tail(ts))
         IN  parseMembers(r.rest, Append(acc, <<Head(ts).s, r.value>>))

JSONparse(ts) == parseValue(ts).value

\* The schema of a kind of document: its issues and its validated tree.
IssuesOf(kind, v) ==
    CASE kind = "Process" -> ProcessSpecIssues(v)
      [] kind = "System" -> SystemSpecIssues(v)
      [] kind = "Lifecycle" -> LifecycleSpecIssues(v)

ParsedOf(kind, v) ==
    CASE kind = "Process" -> ProcessParsed(v)
      [] kind = "System" -> SystemParsed(v)
      [] kind = "Lifecycle" -> LifecycleParsed(v)

\* safeParse: issues, or the validated tree.
safeParse(kind, v) == IF IssuesOf(kind, v) = {} THEN ParsedOf(kind, v) ELSE NoDoc

InitValidate ==
    /\ unit = Idle /\ aggState = Idle /\ truth = {} /\ emitted = <<>>
    /\ prior = Idle /\ cursor = 0 /\ pc = "idle" /\ table = <<>>
    /\ \/ \E d \in ReactionDocs : doc = [kind |-> "Reaction", raw |-> d]
       \/ \E d \in ReactionTriggerDocs : doc = [kind |-> "Reaction", raw |-> d]
       \/ \E d \in LifecycleVersionDocs \cup {AllConditionalLifecycleDoc} :
             doc = [kind |-> "Lifecycle", raw |-> d]
       \/ \E d \in DecisionDocs : doc = [kind |-> "Decision", raw |-> d]
       \/ \E d \in FlowDocs : doc = [kind |-> "Flow", raw |-> d]
       \/ \E d \in ProcessDocs : doc = [kind |-> "Process", raw |-> d]
       \/ \E d \in SystemDocs : doc = [kind |-> "System", raw |-> d]
       \/ \E d \in LifecycleDocs : doc = [kind |-> "Lifecycle", raw |-> d]
       \/ \E x \in IdentStrings, k \in {"PascalName", "PredicateName"} :
              doc = [kind |-> k, raw |-> Str(x)]
    /\ result = [status |-> "pending", issues |-> {}]
    /\ tree = NoDoc /\ text = <<>> /\ again = Idle /\ join = NoJoin /\ index = NoIndex

Pending(kind) == doc.kind = kind /\ result.status = "pending"

ParseReaction ==
    /\ Pending("Reaction")
    /\ result' = Verdict(ReactionIssues(doc.raw))
    /\ UNCHANGED <<index, join, unit, aggState, truth, emitted, prior, cursor, pc, table, doc, tree, text,
                 again>>

ParseDecision ==
    /\ Pending("Decision")
    /\ result' = Verdict(DecisionIssues(doc.raw))
    /\ UNCHANGED <<index, join, unit, aggState, truth, emitted, prior, cursor, pc, table, doc, tree, text,
                 again>>

ParseFlow ==
    /\ Pending("Flow")
    /\ result' = Verdict(FlowIssues(doc.raw))
    /\ UNCHANGED <<index, join, unit, aggState, truth, emitted, prior, cursor, pc, table, doc, tree, text,
                 again>>

ParseProcess ==
    /\ Pending("Process")
    /\ result' = Verdict(ProcessSpecIssues(doc.raw))
    /\ tree' = safeParse("Process", doc.raw)
    /\ UNCHANGED <<index, join, unit, aggState, truth, emitted, prior, cursor, pc, table, doc, text, again>>

ParseSystem ==
    /\ Pending("System")
    /\ result' = Verdict(SystemSpecIssues(doc.raw))
    /\ tree' = safeParse("System", doc.raw)
    /\ UNCHANGED <<index, join, unit, aggState, truth, emitted, prior, cursor, pc, table, doc, text, again>>

ParseLifecycle ==
    /\ Pending("Lifecycle")
    /\ result' = Verdict(LifecycleSpecIssues(doc.raw))
    /\ tree' = safeParse("Lifecycle", doc.raw)
    /\ UNCHANGED <<index, join, unit, aggState, truth, emitted, prior, cursor, pc, table, doc, text, again>>

\* z.string().regex(re): the issue raised for a string the pattern does not match.
PatternIssue == Issue("", "Invalid string: must match pattern")

ParsePascalName ==
    /\ Pending("PascalName")
    /\ result' = Verdict(IF PascalName(doc.raw) THEN {} ELSE {PatternIssue})
    /\ UNCHANGED <<index, join, unit, aggState, truth, emitted, prior, cursor, pc, table, doc, tree, text,
                 again>>

ParsePredicateName ==
    /\ Pending("PredicateName")
    /\ result' = Verdict(IF PredicateName(doc.raw) THEN {} ELSE {PatternIssue})
    /\ UNCHANGED <<index, join, unit, aggState, truth, emitted, prior, cursor, pc, table, doc, tree, text,
                 again>>

\* The validated tree of an accepted document is written out ...
Serialize ==
    /\ tree # NoDoc /\ text = <<>>
    /\ text' = stringify(tree)
    /\ UNCHANGED <<index, join, unit, aggState, truth, emitted, prior, cursor, pc, table, doc, result,
                   tree, again>>

\* ... and read back and handed to the same schema.
Reparse ==
    /\ text # <<>> /\ again = Idle
    /\ again' = [status |-> IF IssuesOf(doc.kind, JSONparse(text)) = {}
                            THEN "accepted" ELSE "rejected",
                 tree |-> safeParse(doc.kind, JSONparse(text))]
    /\ UNCHANGED <<index, join, unit, aggState, truth, emitted, prior, cursor, pc, table, doc, result,
                   tree, text>>

NextValidate ==
    \/ ParseReaction \/ ParseDecision \/ ParseFlow \/ ParseProcess \/ ParseSystem
    \/ ParseLifecycle \/ ParsePascalName \/ ParsePredicateName
    \/ Serialize \/ Reparse

SpecValidate == InitValidate /\ [][NextValidate]_vars

(***************************************************************************)
(* Validated units. A Then entry is its identifier with its conditions:    *)
(* none for an unconditional entry, at least one for a conditional entry.  *)
(***************************************************************************)
ConstraintNames ==
    <<"registry-is-submitted", "reviewer-is-authorised", "no-unresolved-comments",
      "within-review-window">>

EventNames ==
    <<"RegistryApproved", "PreviousRegistryArchived", "TransitionPeriodStarted",
      "ReviewersNotified">>

CommandNames ==
    <<"ReleaseInventory -> Inventory", "InitiateRefund -> Payment",
      "SendNotification -> Notification", "CancelShipment -> Fulfillment">>

ConditionNames ==
    <<"is-first-approval", "has-active-registry", "has-transition-period",
      "has-reviewers">>

SharedCondition == "notifications-enabled"

Unconditional(id) == [id |-> id, conds |-> <<>>]

\* Entries at odd places carry two conditions, the others one.
Conditional(id, i) ==
    [id |-> id,
     conds |-> IF i % 2 = 1 THEN <<ConditionNames[i], SharedCondition>>
               ELSE <<ConditionNames[i]>>]

ThenLists(ids) ==
    UNION { { [i \in 1..n |-> IF i \in cs THEN Conditional(ids[i], i) ELSE Unconditional(ids[i])] :
                cs \in SUBSET (1..n) } : n \in 1..MaxThen }

AndLists == { SubSeq(ConstraintNames, 1, n) : n \in 0..MaxConstraints }

Decisions ==
    { [kind |-> "Decision", When |-> "ApproveRegistry", And |-> a, Then |-> th] :
        a \in AndLists, th \in ThenLists(EventNames) }

Reactions ==
    { [kind |-> "Reaction", When |-> "OrderCancelled", And |-> a, Then |-> th] :
        a \in AndLists, th \in ThenLists(CommandNames) }

Range(q) == {q[i] : i \in 1..Len(q)}

\* The predicates a unit evaluates: its constraints and its entries' conditions.
Predicates(u) == Range(u.And) \cup UNION {Range(u.Then[i].conds) : i \in 1..Len(u.Then)}

(***************************************************************************)
(* The decider (src/unnamed/part_003, sections 5.2, 5.3 and 9) and the     *)
(* process manager (src/unnamed/part_006, sections 5.2 and 5.3). An input  *)
(* (cmd, state, ctx) is the set of predicates it makes hold.               *)
(***************************************************************************)
\* The names of the constraints that failed, in And order.
evaluateConstraints(u, holds) == SelectSeq(u.And, LAMBDA c : c \notin holds)

ConditionsPass(e, holds) == \A i \in 1..Len(e.conds) : e.conds[i] \in holds

\* Unconditional entries first, the qualifying conditional entries after them.
QualifyingUnconditionalFirst(u, holds) ==
    SelectSeq(u.Then, LAMBDA e : e.conds = <<>>)
        \o SelectSeq(u.Then, LAMBDA e : e.conds # <<>> /\ ConditionsPass(e, holds))

Qualifying(u, holds) == SelectSeq(u.Then, LAMBDA e : ConditionsPass(e, holds))

\* First-match selection: the first qualifying entry only.
decideFirstMatch(u, holds) ==
    LET failed == evaluateConstraints(u, holds)
        q == Qualifying(u, holds)
    IN  IF Len(failed) > 0
        THEN <<[kind |-> "DecisionFailed", decision |-> u.When, failed |-> failed]>>
        ELSE [i \in 1..(IF Len(q) > 0 THEN 1 ELSE 0) |-> [kind |-> q[i].id]]

decide(u, holds) ==
    LET failed == evaluateConstraints(u, holds)
        q == Qualifying(u, holds)
    IN  IF Len(failed) > 0
        THEN <<[kind |-> "DecisionFailed", decision |-> u.When, failed |-> failed]>>
        ELSE [i \in 1..Len(q) |-> [kind |-> q[i].id]]

\* Treating DecisionFailed like any other event.
evolveEveryEvent(state, event) ==
    [version |-> state.version + 1, last |-> event.kind]

evolve(state, event) ==
    IF event.kind = "DecisionFailed" THEN state
    ELSE [version |-> state.version + 1, last |-> event.kind]

\* A process manager reporting failed constraints the way a decider does.
reactLikeDecider(u, holds) == decide(u, holds)

\* A process manager whose constraints fail dispatches nothing and emits no failure.
react(u, holds) ==
    LET q == Qualifying(u, holds)
    IN  IF Len(evaluateConstraints(u, holds)) > 0 THEN <<>>
        ELSE [i \in 1..Len(q) |-> [kind |-> q[i].id]]

InitialState == [version |-> 0, last |-> "none"]

Init ==
    /\ unit \in Decisions \cup Reactions
    /\ aggState = InitialState /\ prior = InitialState
    /\ truth = {} /\ emitted = <<>> /\ cursor = 0 /\ pc = "ready"
    /\ table = <<>> /\ doc = NoDoc /\ result = Idle
    /\ tree = NoDoc /\ text = <<>> /\ again = Idle /\ join = NoJoin /\ index = NoIndex

\* A command arrives at the decider: decide returns its events.
Decide(holds) ==
    /\ pc = "ready" /\ unit.kind = "Decision" /\ aggState.version < MaxVersion
    /\ truth' = holds
    /\ prior' = aggState
    /\ emitted' = decide(unit, holds)
    /\ cursor' = 0
    /\ pc' = "decided"
    /\ UNCHANGED <<index, join, unit, aggState, table, doc, result, tree, text, again>>

\* The next emitted event is applied to the aggregate.
Evolve ==
    /\ pc = "decided" /\ cursor < Len(emitted)
    /\ aggState' = evolve(aggState, emitted[cursor + 1])
    /\ cursor' = cursor + 1
    /\ pc' = IF cursor + 1 = Len(emitted) THEN "done" ELSE "decided"
    /\ UNCHANGED <<index, join, unit, truth, emitted, prior, table, doc, result, tree, text, again>>

\* decide returned no event: nothing to apply.
Settle ==
    /\ pc = "decided" /\ Len(emitted) = 0
    /\ pc' = "done"
    /\ UNCHANGED <<index, join, unit, aggState, truth, emitted, prior, cursor, table, doc, result, tree, text, again>>

\* An event arrives at the process manager: its commands are dispatched.
React(holds) ==
    /\ pc = "ready" /\ unit.kind = "Reaction"
    /\ truth' = holds
    /\ prior' = aggState
    /\ emitted' = react(unit, holds)
    /\ cursor' = 0
    /\ pc' = "done"
    /\ UNCHANGED <<index, join, unit, aggState, table, doc, result, tree, text, again>>

\* The unit waits for its next input.
Ready ==
    /\ pc = "done" /\ (truth # {} \/ emitted # <<>>)
    /\ truth' = {} /\ emitted' = <<>> /\ cursor' = 0 /\ pc' = "ready"
    /\ prior' = aggState
    /\ UNCHANGED <<index, join, unit, aggState, table, doc, result, tree, text, again>>

Next ==
    \/ \E holds \in SUBSET Predicates(unit) : Decide(holds)
    \/ Evolve
    \/ Settle
    \/ \E holds \in SUBSET Predicates(unit) : React(holds)
    \/ Ready

Spec == Init /\ [][Next]_vars

Handled == pc \in {"decided", "done"}

ConstraintsHold == Range(unit.And) \subseteq truth

EmittedKinds == {emitted[i].kind : i \in 1..Len(emitted)}

(***************************************************************************)
(* C1  Additive Then: on success a Decision (or Reaction) emits all its    *)
(* unconditional entries and exactly those conditional entries whose       *)
(* conditions all hold, each once; no entry is suppressed because another  *)
(* one matched.                                                            *)
(***************************************************************************)
AdditiveThen ==
    (Handled /\ ConstraintsHold)
        => /\ EmittedKinds =
                  {unit.Then[i].id : i \in {j \in 1..Len(unit.Then) : unit.Then[j].conds = <<>>}}
                  \cup {unit.Then[i].id :
                          i \in {j \in 1..Len(unit.Then) :
                                    /\ unit.Then[j].conds # <<>>
                                    /\ Range(unit.Then[j].conds) \subseteq truth}}
           /\ Len(emitted) = Cardinality(EmittedKinds)

\* A Decision with one unconditional and two conditional entries has succeeded with
\* both conditional entries qualifying: all three events were emitted and applied.
AdditiveThenWitness ==
    /\ unit.kind = "Decision" /\ pc = "done" /\ ConstraintsHold
    /\ Len(unit.Then) = 3
    /\ unit.Then[1].conds = <<>>
    /\ unit.Then[2].conds # <<>> /\ Range(unit.Then[2].conds) \subseteq truth
    /\ unit.Then[3].conds # <<>> /\ Range(unit.Then[3].conds) \subseteq truth
    /\ Len(emitted) = 3 /\ cursor = 3

(***************************************************************************)
(* C2  Implicit failure convention: when at least one And constraint fails *)
(* decide emits exactly one event, DecisionFailed, naming the command and  *)
(* exactly the failed constraints, and no Then event; evolve leaves the    *)
(* aggregate state as it was.                                              *)
(***************************************************************************)
ImplicitFailure ==
    (unit.kind = "Decision" /\ Handled /\ ~ConstraintsHold)
        => /\ Len(emitted) = 1
           /\ emitted[1].kind = "DecisionFailed"
           /\ emitted[1].decision = unit.When
           /\ Range(emitted[1].failed) = Range(unit.And) \ truth
           /\ Len(emitted[1].failed) = Cardinality(Range(unit.And) \ truth)
           /\ aggState = prior

\* A command failed two constraints and its DecisionFailed event went through evolve.
ImplicitFailureWitness ==
    /\ unit.kind = "Decision" /\ pc = "done" /\ cursor = 1
    /\ Cardinality(Range(unit.And) \ truth) = 2
    /\ emitted[1].kind = "DecisionFailed"

(***************************************************************************)
(* The decision table of a Decision (src/guide/example-artifacts.md,       *)
(* section 1). A row marks every constraint and every conditional event    *)
(* "T" (holds), "F" (violated) or "-" (not evaluated) and lists its output.*)
(***************************************************************************)
ApproveRegistry ==
    [kind |-> "Decision", When |-> "ApproveRegistry",
     And |-> <<"registry-is-submitted", "reviewer-is-authorised", "no-unresolved-comments">>,
     Then |-> <<[id |-> "RegistryApproved", conds |-> <<>>],
                [id |-> "PreviousRegistryArchived", conds |-> <<"has-active-registry">>]>>]

\* How many of the first i Then entries are conditional.
CondIndex(u, i) == Cardinality({j \in 1..i : u.Then[j].conds # <<>>})

CondCount(u) == CondIndex(u, Len(u.Then))

\* One row of flags per conditional event, without the truth combinations.
RECURSIVE FlagRowsOnePerEvent(_)
FlagRowsOnePerEvent(k) ==
    IF k = 0 THEN << <<>> >>
    ELSE LET r == FlagRowsOnePerEvent(k - 1)
         IN  <<[i \in 1..k |-> "T"]>> \o [i \in 1..Len(r) |-> <<"F">> \o r[i]]

\* Every truth combination of k flags, true before false.
RECURSIVE FlagRows(_)
FlagRows(k) ==
    IF k = 0 THEN << <<>> >>
    ELSE LET r == FlagRows(k - 1)
         IN  [i \in 1..Len(r) |-> <<"T">> \o r[i]] \o [i \in 1..Len(r) |-> <<"F">> \o r[i]]

\* Listing every Then entry, whatever its flag.
FiredIgnoringFlags(u, flags) == [i \in 1..Len(u.Then) |-> u.Then[i].id]

\* The events a success row fires: unconditional ones, and conditional ones flagged true.
Fired(u, flags) ==
    LET keep == SelectSeq([i \in 1..Len(u.Then) |-> i],
                          LAMBDA i : \/ u.Then[i].conds = <<>>
                                     \/ flags[CondIndex(u, i)] = "T")
    IN  [i \in 1..Len(keep) |-> u.Then[keep[i]].id]

SuccessRow(u, flags) ==
    [cons |-> [i \in 1..Len(u.And) |-> "T"],
     flags |-> flags,
     output |-> [kind |-> "Events", names |-> Fired(u, flags)]]

\* Constraint i violated alone: the ones before it hold, the rest is not evaluated.
FailureRow(u, i) ==
    [cons |-> [j \in 1..Len(u.And) |-> IF j < i THEN "T" ELSE IF j = i THEN "F" ELSE "-"],
     flags |-> [j \in 1..CondCount(u) |-> "-"],
     output |-> [kind |-> "DecisionFailed", names |-> <<u.And[i]>>]]

AllFailRow(u) ==
    [cons |-> [j \in 1..Len(u.And) |-> "F"],
     flags |-> [j \in 1..CondCount(u) |-> "-"],
     output |-> [kind |-> "DecisionFailed", names |-> u.And]]

DecisionTable(u, allFail) ==
    LET fr == FlagRows(CondCount(u))
    IN  [i \in 1..Len(fr) |-> SuccessRow(u, fr[i])]
        \o [i \in 1..Len(u.And) |-> FailureRow(u, i)]
        \o (IF allFail THEN <<AllFailRow(u)>> ELSE <<>>)

InitTable ==
    /\ unit \in Decisions
    /\ table = [allFail |-> FALSE, rows |-> <<>>]
    /\ pc = "ready"
    /\ aggState = Idle /\ prior = Idle /\ truth = {} /\ emitted = <<>> /\ cursor = 0
    /\ doc = NoDoc /\ result = Idle
    /\ tree = NoDoc /\ text = <<>> /\ again = Idle /\ join = NoJoin /\ index = NoIndex

GenerateTable(allFail) ==
    /\ pc = "ready"
    /\ table' = [allFail |-> allFail, rows |-> DecisionTable(unit, allFail)]
    /\ pc' = "done"
    /\ UNCHANGED <<index, join, unit, aggState, truth, emitted, prior, cursor, doc, result, tree, text, again>>

NextTable == \E allFail \in BOOLEAN : GenerateTable(allFail)

SpecTable == InitTable /\ [][NextTable]_vars

Rows == table.rows

SuccessRows == {i \in 1..Len(Rows) : Rows[i].output.kind = "Events"}

FailureRows == {i \in 1..Len(Rows) : Rows[i].output.kind = "DecisionFailed"}

\* The rows in which exactly one constraint is marked violated.
SingleFailureRows ==
    {i \in FailureRows : Cardinality({j \in 1..Len(unit.And) : Rows[i].cons[j] = "F"}) = 1}

DecisionTableRowOutput ==
    (pc = "done")
        => /\ \A i \in SuccessRows :
                 /\ Range(Rows[i].output.names) =
                        {unit.Then[j].id :
                            j \in {x \in 1..Len(unit.Then) :
                                      \/ unit.Then[x].conds = <<>>
                                      \/ Rows[i].flags[CondIndex(unit, x)] = "T"}}
                 /\ Len(Rows[i].output.names) = Cardinality(Range(Rows[i].output.names))
           /\ \A i \in SingleFailureRows :
                 \E j \in 1..Len(unit.And) :
                     Rows[i].cons[j] = "F" /\ Rows[i].output.names = <<unit.And[j]>>
           /\ unit = ApproveRegistry
                 => /\ Cardinality(SuccessRows) = 2
                    /\ Cardinality(SingleFailureRows) = 3
                    /\ {Rows[i].output.names : i \in SingleFailureRows}
                           = {<<unit.And[j]>> : j \in 1..3}

\* The table generated for ApproveRegistry, all-fail row requested, is the six rows of
\* the guide.
ApproveRegistryTable ==
    /\ unit = ApproveRegistry /\ pc = "done"
    /\ Rows =
        << [cons |-> <<"T", "T", "T">>, flags |-> <<"T">>,
            output |-> [kind |-> "Events",
                        names |-> <<"RegistryApproved", "PreviousRegistryArchived">>]],
           [cons |-> <<"T", "T", "T">>, flags |-> <<"F">>,
            output |-> [kind |-> "Events", names |-> <<"RegistryApproved">>]],
           [cons |-> <<"F", "-", "-">>, flags |-> <<"-">>,
            output |-> [kind |-> "DecisionFailed", names |-> <<"registry-is-submitted">>]],
           [cons |-> <<"T", "F", "-">>, flags |-> <<"-">>,
            output |-> [kind |-> "DecisionFailed", names |-> <<"reviewer-is-authorised">>]],
           [cons |-> <<"T", "T", "F">>, flags |-> <<"-">>,
            output |-> [kind |-> "DecisionFailed", names |-> <<"no-unresolved-comments">>]],
           [cons |-> <<"F", "F", "F">>, flags |-> <<"-">>,
            output |-> [kind |-> "DecisionFailed",
                        names |-> <<"registry-is-submitted", "reviewer-is-authorised",
                                    "no-unresolved-comments">>]] >>

(***************************************************************************)
(* Reading a document the way the claims speak of it.                      *)
(***************************************************************************)
\* The identifier of a Then entry: the string itself, or the key of a conditional entry.
EntryId(e) == IF IsStr(e) THEN e.s ELSE CHOOSE k \in Keys(e) : TRUE

ThenIds(th) ==
    IF IsStr(th) THEN {th.s} ELSE {EntryId(th.items[i]) : i \in 1..Len(th.items)}

\* The decider after " -> " of "CommandName -> DeciderName".
TargetOf(s) ==
    LET i == CHOOSE j \in 1..(Len(s) - 3) : SubSeq(s, j, j + 3) = " -> "
    IN  SubSeq(s, i + 4, Len(s))

\* The decider after " from " of "EventName from DeciderName".
SourceOf(s) ==
    LET i == CHOOSE j \in 1..(Len(s) - 5) : SubSeq(s, j, j + 5) = " from "
    IN  SubSeq(s, i + 6, Len(s))

Names(list) == {list.items[i].s : i \in 1..Len(list.items)}

IsAllTrigger(w) == IsObj(w) /\ "all" \in Keys(w)

IsAnyTrigger(w) == IsObj(w) /\ "any" \in Keys(w)

\* The source deciders a reaction names: its From, and the sources of an All trigger.
SourcesOf(r) ==
    (IF Get(r, "From") = Undef THEN {} ELSE {Get(r, "From").s})
    \cup (IF IsAllTrigger(Get(r, "When"))
          THEN {SourceOf(e) : e \in {x \in Names(Get(r, "When").f["all"]) : SourcedEventRe(x)}}
          ELSE {})

Parsed == result.status \in {"accepted", "rejected"}

Accepted == result.status = "accepted"

Rejected == result.status = "rejected"

(***************************************************************************)
(* C5  Outcome key correspondence: in every accepted Decision or Reaction  *)
(* with a keyed Outcome, every key other than _always is the identifier of *)
(* a Then entry of the same unit.                                          *)
(***************************************************************************)
OutcomeKeyCorrespondence ==
    (doc.kind \in {"Decision", "Reaction"} /\ Accepted /\ IsObj(Get(doc.raw, "Outcome")))
        => (Keys(Get(doc.raw, "Outcome")) \ {"_always"}) \subseteq ThenIds(Get(doc.raw, "Then"))

(***************************************************************************)
(* C6  All-trigger correlate requirement: a Reaction whose When is         *)
(* {all: [...]} and that has no correlate field is rejected.               *)
(***************************************************************************)
AllTriggerRequiresCorrelate ==
    (doc.kind = "Reaction" /\ Parsed /\ IsAllTrigger(Get(doc.raw, "When"))
        /\ Get(doc.raw, "correlate") = Undef)
        => Rejected

(***************************************************************************)
(* C7  From is required for Scalar and Any triggers: a Reaction whose When *)
(* is a single event name or {any: [...]} and that has no From is rejected.*)
(***************************************************************************)
FromRequiredForScalarAndAny ==
    (doc.kind = "Reaction" /\ Parsed
        /\ (IsStr(Get(doc.raw, "When")) \/ IsAnyTrigger(Get(doc.raw, "When")))
        /\ Get(doc.raw, "From") = Undef)
        => Rejected

(***************************************************************************)
(* C8  Undeclared command target: in every accepted Process document the   *)
(* decider after -> of every Then entry of every Reaction is in emits_to.  *)
(***************************************************************************)
ThenTargetsDeclared ==
    (doc.kind = "Process" /\ Accepted)
        => \A i \in 1..Len(doc.raw.f.reactions.items) :
              \A id \in ThenIds(Get(doc.raw.f.reactions.items[i], "Then")) :
                  TargetOf(id) \in Names(doc.raw.f.emits_to)

(***************************************************************************)
(* C9  Undeclared event source: in every accepted Process document the     *)
(* decider of every Reaction's From, and of every "EventName from          *)
(* DeciderName" entry of an All trigger, is in reacts_to.                  *)
(***************************************************************************)
EventSourcesDeclared ==
    (doc.kind = "Process" /\ Accepted)
        => \A i \in 1..Len(doc.raw.f.reactions.items) :
              SourcesOf(doc.raw.f.reactions.items[i]) \subseteq Names(doc.raw.f.reacts_to)

(***************************************************************************)
(* C10  Policy requires actor: a Reaction or Flow whose trigger is policy  *)
(* and whose actor is absent or empty is rejected; with trigger automated  *)
(* or omitted an otherwise well-formed entry is accepted, whatever actor.  *)
(***************************************************************************)
OtherFieldsWellFormed ==
    \/ /\ doc.kind = "Reaction"
       /\ Get(doc.raw, "When") \in GoodWhen
       /\ Get(doc.raw, "Then") \in GoodThen
       /\ Get(doc.raw, "Outcome") # Undef
    \/ /\ doc.kind = "Flow"
       /\ Get(doc.raw, "on") = Str("LaboratoryManagement")
       /\ Get(doc.raw, "triggers") # Undef

SystemShapeOk == doc.kind = "System" /\ SystemShape(doc.raw) = {}

DeclaredModules == {doc.raw.f.modules.items[i].f.name.s : i \in 1..Len(doc.raw.f.modules.items)}

DocFlows == IF Get(doc.raw, "flows") = Undef THEN <<>> ELSE doc.raw.f.flows.items

DocDecisions == doc.raw.f.lifecycle.items

\* The bare kebab-case names of a list of predicate entries.
BareIn(list) == IF list = Undef THEN {} ELSE {e.s : e \in {x \in SeqRange(list.items) : IsStr(x)}}

\* The bare names of the And list and of the condition lists of the Then entries.
BareReferences(d) ==
    BareIn(Get(d, "And"))
    \cup (IF IsArr(Get(d, "Then"))
          THEN UNION { UNION {BareIn(e.f[k]) : k \in Keys(e)} :
                         e \in {x \in SeqRange(Get(d, "Then").items) : IsObj(x)} }
          ELSE {})

CommonKeys == IF Get(doc.raw, "common") = Undef THEN {} ELSE Keys(Get(doc.raw, "common"))

(***************************************************************************)
(* C14  One Decision per command: in every accepted Lifecycle document no  *)
(* two entries of lifecycle have the same When.                            *)
(***************************************************************************)
OneDecisionPerCommand ==
    (doc.kind = "Lifecycle" /\ Accepted)
        => \A i, j \in 1..Len(DocDecisions) :
              i # j => Get(DocDecisions[i], "When") # Get(DocDecisions[j], "When")

OutcomesInline == \A i \in 1..Len(DocDecisions) : OutcomeSpec(Get(DocDecisions[i], "Outcome"))

NamesOnlyDocumentAccepted ==
    (doc.kind = "Lifecycle" /\ doc.raw = FirstLifecycleDoc /\ Parsed) => Accepted

(***************************************************************************)
(* The two identifier languages, stated by their structure.                *)
(***************************************************************************)
\* The pieces of s between its hyphens.
RECURSIVE SplitHyphen(_)
SplitHyphen(s) ==
    IF \A i \in 1..Len(s) : Char(s, i) # "-" THEN <<s>>
    ELSE LET i == CHOOSE j \in 1..Len(s) :
                      Char(s, j) = "-" /\ \A k \in 1..(j - 1) : Char(s, k) # "-"
         IN  <<SubSeq(s, 1, i - 1)>> \o SplitHyphen(SubSeq(s, i + 1, Len(s)))

\* An upper-case letter followed by letters and digits only.
IsPascalIdentifier(s) ==
    /\ s # ""
    /\ Char(s, 1) \in Upper
    /\ {i \in 1..Len(s) : Char(s, i) \notin (Upper \cup Lower \cup Digit)} = {}

\* Non-empty pieces of lower-case letters and digits joined by single hyphens,
\* the first piece starting with a letter.
IsKebabIdentifier(s) ==
    LET pieces == SplitHyphen(s)
    IN  /\ \A k \in 1..Len(pieces) :
              /\ pieces[k] # ""
              /\ \A i \in 1..Len(pieces[k]) : Char(pieces[k], i) \in (Lower \cup Digit)
        /\ Char(pieces[1], 1) \in Lower

(***************************************************************************)
(* C17  Identifier pattern: parsing a string as a Pascal identifier        *)
(* succeeds if and only if the whole string is an upper-case letter        *)
(* followed by letters and digits, and parsing it as a kebab identifier    *)
(* succeeds if and only if it is lower-case/digit pieces joined by single  *)
(* hyphens starting with a letter; every other string (the empty string, a *)
(* leading digit, a trailing or doubled hyphen) fails with the pattern     *)
(* issue.                                                                  *)
(***************************************************************************)
IdentifierPattern ==
    (doc.kind \in {"PascalName", "PredicateName"} /\ Parsed)
        => /\ doc.kind = "PascalName" => (Accepted <=> IsPascalIdentifier(doc.raw.s))
           /\ doc.kind = "PredicateName" => (Accepted <=> IsKebabIdentifier(doc.raw.s))
           /\ Rejected => result.issues = {PatternIssue}
           /\ doc.raw.s \in {"", "7b", "7A", "b-", "b--b", "-b"} => Rejected

\* A kebab name with a doubled hyphen has been parsed and refused.
DoubledHyphenRejected ==
    /\ doc = [kind |-> "PredicateName", raw |-> Str("b--b")]
    /\ result = [status |-> "rejected", issues |-> {PatternIssue}]

(***************************************************************************)
(* What a document calls for, read off the raw document.                   *)
(***************************************************************************)
ActorIssue == Issue("actor", "actor is required when trigger is policy.")

\* The issues of the fields of the document, one by one.
MalformedFields ==
    CASE doc.kind = "Reaction" -> ReactionShape(doc.raw)
      [] doc.kind = "Flow" -> FlowShape(doc.raw)
      [] doc.kind = "System" -> SystemShape(doc.raw)

\* The cross-field rules the document violates.
ViolatedRules ==
    CASE doc.kind \in {"Reaction", "Flow"} ->
            IF Get(doc.raw, "trigger") = Str("policy")
                  /\ Get(doc.raw, "actor") \in {Undef, Str("")}
            THEN {ActorIssue} ELSE {}
      [] doc.kind = "System" ->
            (IF \E i \in 1..Len(DocFlows) :
                   ~({DocFlows[i].f.from.s, DocFlows[i].f.on.s} \subseteq DeclaredModules)
             THEN {UndeclaredModuleIssue} ELSE {})
            \cup (IF \E i, j \in 1..Len(doc.raw.f.modules.items) :
                        i # j /\ doc.raw.f.modules.items[i].f.name
                                   = doc.raw.f.modules.items[j].f.name
                  THEN {DuplicateModuleIssue} ELSE {})
            \cup (IF \E i \in 1..Len(DocFlows) : DocFlows[i].f.from.s = DocFlows[i].f.on.s
                  THEN {SelfFlowIssue} ELSE {})

\* A required property of the document is missing, or its trigger is no member of
\* the enum.
MissingOrOutsideEnum ==
    CASE doc.kind = "Reaction" ->
            Get(doc.raw, "Outcome") = Undef \/ Get(doc.raw, "trigger") = Str("manual")
      [] doc.kind = "Flow" ->
            Get(doc.raw, "triggers") = Undef \/ Get(doc.raw, "trigger") = Str("manual")
      [] doc.kind = "System" -> Get(doc.raw, "system") = Undef

DefaultsFilled ==
    /\ doc.kind = "Process" =>
          \A i \in 1..Len(tree.f.reactions.items) :
              Get(tree.f.reactions.items[i], "trigger") \in {Str("automated"), Str("policy")}
    /\ doc.kind = "System" =>
          /\ Get(tree, "flows") # Undef
          /\ \A i \in 1..Len(tree.f.flows.items) :
                Get(tree.f.flows.items[i], "trigger") \in {Str("automated"), Str("policy")}

JoinEvents ==
    <<"PaymentConfirmed from Payment", "InventoryReserved from Inventory",
      "ShipmentPrepared from Fulfillment">>

CorrelateValues == {"order-1", "order-2"}

AllTriggers ==
    { [all |-> SubSeq(JoinEvents, 1, n), correlate |-> "orderId"] : n \in 2..Len(JoinEvents) }

\* An event as it arrives: its name and the payload field the trigger correlates on.
JoinArrivals == { [kind |-> JoinEvents[i], orderId |-> v] : i \in 1..Len(JoinEvents), v \in CorrelateValues }

complete(trigger, set) == Range(trigger.all) \subseteq set

\* One store for every instance: the correlation key is ignored.
accumulateSharedStore(stored, event, key) ==
    [w \in DOMAIN stored |-> stored[w] \cup {event.kind}]

accumulate(stored, event, key) ==
    [stored EXCEPT ![key] = @ \cup {event.kind}]

InitJoin ==
    /\ unit = Idle /\ aggState = Idle /\ truth = {} /\ emitted = <<>>
    /\ prior = Idle /\ cursor = 0 /\ pc = "idle" /\ table = <<>>
    /\ doc = NoDoc /\ result = Idle
    /\ tree = NoDoc /\ text = <<>> /\ again = Idle /\ index = NoIndex
    /\ \E t \in AllTriggers :
          join = [trigger |-> t,
                  stored |-> [v \in CorrelateValues |-> {}],
                  fired |-> [v \in CorrelateValues |-> 0],
                  log |-> <<>>]

\* An event arrives: a listed event is stored under its correlation key, and the
\* reaction fires for every key whose set has just become complete.
Arrive(event) ==
    /\ Len(join.log) < MaxArrivals
    /\ LET key == event[join.trigger.correlate]
           after == IF event.kind \in Range(join.trigger.all)
                    THEN accumulate(join.stored, event, key)
                    ELSE join.stored
       IN  join' = [join EXCEPT
                      !.stored = after,
                      !.fired = [v \in CorrelateValues |->
                                    IF ~complete(join.trigger, join.stored[v])
                                       /\ complete(join.trigger, after[v])
                                    THEN join.fired[v] + 1 ELSE join.fired[v]],
                      !.log = Append(@, event)]
    /\ UNCHANGED <<unit, aggState, truth, emitted, prior, cursor, pc, table, doc, result,
                   tree, text, again, index>>

NextJoin == \E event \in JoinArrivals : Arrive(event)

SpecJoin == InitJoin /\ [][NextJoin]_vars

\* The names of the events that have arrived carrying the value v.
ArrivedFor(v) ==
    { join.log[i].kind : i \in { j \in 1..Len(join.log) : join.log[j].orderId = v } }

(***************************************************************************)
(* C23  All-trigger join: for every value v of the correlate field, the    *)
(* reaction has fired for v exactly once if every listed event carrying v  *)
(* has arrived, in whatever order and however often, and has not fired for *)
(* v otherwise; events carrying another value never count towards v.       *)
(***************************************************************************)
AllTriggerJoin ==
    \A v \in CorrelateValues :
        join.fired[v] = IF Range(join.trigger.all) \subseteq ArrivedFor(v) THEN 1 ELSE 0

\* The set of order-1 was completed last event first and one of its events came
\* again afterwards, while order-2 is still waiting for an event.
AllTriggerJoinWitness ==
    /\ join.fired["order-1"] = 1 /\ join.fired["order-2"] = 0
    /\ join.stored["order-2"] # {}
    /\ Len(join.log) >= 3
    /\ join.log[1] = [kind |-> join.trigger.all[Len(join.trigger.all)], orderId |-> "order-1"]
    /\ \E i \in 1..Len(join.log) :
          /\ join.log[i].orderId = "order-1"
          /\ complete(join.trigger, { join.log[j].kind : j \in { k \in 1..(i - 1) : join.log[k].orderId = "order-1" } })

(***************************************************************************)
(* C24  Process silence on failure: when a constraint of a Reaction fails, *)
(* or every Then entry is conditional and none qualifies, no command is    *)
(* dispatched, no DecisionFailed or other failure event is emitted, and    *)
(* the process manager state is what it was before the event.              *)
(***************************************************************************)
AllConditionalNoneQualifies ==
    \A i \in 1..Len(unit.Then) :
        unit.Then[i].conds # <<>> /\ ~(Range(unit.Then[i].conds) \subseteq truth)

ThenPosition(id) == CHOOSE k \in 1..Len(unit.Then) : unit.Then[k].id = id

ListOrderIsEmissionOrder ==
    (Handled /\ ConstraintsHold)
        => \A i, j \in 1..Len(emitted) :
              i < j => ThenPosition(emitted[i].kind) < ThenPosition(emitted[j].kind)

\* A Reaction whose first entry is conditional and second unconditional dispatched
\* both, the conditional one first.
ListOrderWitness ==
    /\ unit.kind = "Reaction" /\ pc = "done" /\ ConstraintsHold
    /\ Len(unit.Then) = 3
    /\ unit.Then[1].conds # <<>> /\ unit.Then[2].conds = <<>> /\ unit.Then[3].conds # <<>>
    /\ Len(emitted) = 3
    /\ emitted[1].kind = unit.Then[1].id /\ emitted[3].kind = unit.Then[3].id

(***************************************************************************)
(* C26  Any trigger needs two distinct events: an accepted Reaction whose  *)
(* When is {any: [...]} names at least two distinct events in the list.    *)
(***************************************************************************)
AnyTriggerDistinctEvents ==
    (doc.kind = "Reaction" /\ Accepted /\ IsAnyTrigger(Get(doc.raw, "When")))
        => Cardinality(Names(Get(doc.raw, "When").f["any"])) >= 2

(***************************************************************************)
(* C29  An All trigger is homogeneous: in an accepted Reaction whose When  *)
(* is an object, the object has the single key any or the single key all,  *)
(* and the entries of all are either all "EventName from DeciderName" or   *)
(* all bare PascalCase event names.                                        *)
(***************************************************************************)
AllTriggerHomogeneous ==
    (doc.kind = "Reaction" /\ Accepted /\ IsObj(Get(doc.raw, "When")))
        => LET w == Get(doc.raw, "When")
           IN  /\ Keys(w) \in {{"any"}, {"all"}}
               /\ Keys(w) = {"all"}
                    => \/ \A x \in Names(w.f["all"]) : SourcedEventRe(x)
                       \/ \A x \in Names(w.f["all"]) : PASCAL_CASE(x)

\* A reaction whose only defect is a list mixing the two forms has been rejected.
MixedAllTriggerRejected ==
    /\ doc.kind = "Reaction" /\ Rejected
    /\ Get(doc.raw, "When") = WhenAllMixedDoc
    /\ doc.raw \in ReactionTriggerDocs

(***************************************************************************)
(* C28  Minor-version compatibility: a Lifecycle document that declares    *)
(* the version the schema reference of the next schema documents for       *)
(* ubispec, and is accepted when it declares lifecycle/v1.0, is accepted   *)
(* by the next schema.                                                     *)
(***************************************************************************)
DocumentedVersionAccepted ==
    (doc.kind = "Lifecycle" /\ Parsed /\ doc.raw \in LifecycleVersionDocs
        /\ Get(doc.raw, "ubispec") = Str(NextDocumentedUbispec))
        => Accepted

(***************************************************************************)
(* C27  All-conditional Then is a warning, not an error: a Lifecycle       *)
(* document in which every Then entry of some Decision is conditional is   *)
(* accepted, and the outcome of its validation carries a                   *)
(* PotentialEmptyEmission warning.                                         *)
(***************************************************************************)
HasAllConditionalThen(d) ==
    /\ IsArr(Get(d, "Then"))
    /\ \A i \in 1..Len(d.f.Then.items) : IsObj(d.f.Then.items[i])

PotentialEmptyEmissionWarned ==
    (doc.kind = "Lifecycle" /\ Parsed
        /\ \E i \in 1..Len(DocDecisions) : HasAllConditionalThen(DocDecisions[i]))
        => /\ Accepted
           /\ \E w \in result.issues : w.message = "PotentialEmptyEmission"

(***************************************************************************)
(* The index generator (src/scripts/gen-index.ts) run over a spec of the   *)
(* version registry (src/schema/spec.ts): the versions of the spec in      *)
(* declaration order, each stable or not; next is the unstable version.    *)
(***************************************************************************)
VersionNames == {"v1-0", "v1-1", "v2-0", "next"}

SpecNames == {"lifecycle", "process"}

Injective(q) == \A i, j \in 1..Len(q) : q[i] = q[j] => i = j

Registries ==
    { vs \in UNION {[1..n -> [version : VersionNames, stable : BOOLEAN]] : n \in 1..MaxRegistered} :
        /\ Injective([i \in 1..Len(vs) |-> vs[i].version])
        /\ \A i \in 1..Len(vs) : vs[i].version = "next" => ~vs[i].stable }

\* The registry of spec.ts: v1-0 stable, next unstable.
lifecycleVersions ==
    <<[version |-> "v1-0", stable |-> TRUE], [version |-> "next", stable |-> FALSE]>>

formatVersionForDisplay(version) == IF version = "v1-0" THEN "v1.0" ELSE version

LowerLetters == "abcdefghijklmnopqrstuvwxyz"

UpperLetters == "ABCDEFGHIJKLMNOPQRSTUVWXYZ"

toUpperCase(c) ==
    IF \E i \in 1..Len(LowerLetters) : SubSeq(LowerLetters, i, i) = c
    THEN LET i == CHOOSE j \in 1..Len(LowerLetters) : SubSeq(LowerLetters, j, j) = c
         IN  SubSeq(UpperLetters, i, i)
    ELSE c

getExportName(specName) ==
    toUpperCase(SubSeq(specName, 1, 1)) \o SubSeq(specName, 2, Len(specName)) \o "Spec"

\* The first declared version, stable or not.
getFirstDeclaredVersion(versions) == formatVersionForDisplay(versions[1].version)

getLatestStableVersion(versions) ==
    LET stableVersions == SelectSeq(versions, LAMBDA v : v.stable)
    IN  IF Len(stableVersions) = 0 THEN "next"
        ELSE formatVersionForDisplay(stableVersions[1].version)

IndexEntry(specName, version) ==
    [schema |-> "schema/" \o specName \o "/" \o version.version \o "/" \o version.version
                    \o ".schema.json",
     zod |-> "schema/" \o specName \o "/" \o version.version \o "/" \o specName \o ".ts",
     export |-> getExportName(specName),
     docs |-> "schema/" \o specName \o "/" \o formatVersionForDisplay(version.version) \o "/",
     status |-> IF version.stable THEN "stable" ELSE "unstable"]

InitIndex ==
    /\ unit = Idle /\ aggState = Idle /\ truth = {} /\ emitted = <<>>
    /\ prior = Idle /\ cursor = 0 /\ pc = "idle" /\ table = <<>>
    /\ doc = NoDoc /\ result = Idle
    /\ tree = NoDoc /\ text = <<>> /\ again = Idle /\ join = NoJoin
    /\ \E name \in SpecNames, vs \in Registries \cup {lifecycleVersions} :
          index = [specDef |-> [name |-> name, versions |-> vs],
                   at |-> 0, specEntry |-> NoIndex, specs |-> <<>>]

\* The entry of the spec is created with its latest version.
BeginSpec ==
    /\ index.specEntry = NoIndex /\ index.specs = <<>>
    /\ index' = [index EXCEPT
                    !.specEntry = [versions |-> <<>>,
                                   latest |-> getLatestStableVersion(index.specDef.versions)]]
    /\ UNCHANGED <<unit, aggState, truth, emitted, prior, cursor, pc, table, doc, result,
                   tree, text, again, join>>

\* The next version of the spec is entered under its display name.
AddVersion ==
    /\ index.specEntry # NoIndex /\ index.at < Len(index.specDef.versions)
    /\ LET version == index.specDef.versions[index.at + 1]
           versionDisplay == formatVersionForDisplay(version.version)
       IN  index' = [index EXCEPT
                        !.at = @ + 1,
                        !.specEntry.versions =
                            (versionDisplay :> IndexEntry(index.specDef.name, version)) @@ @]
    /\ UNCHANGED <<unit, aggState, truth, emitted, prior, cursor, pc, table, doc, result,
                   tree, text, again, join>>

\* The entry of the spec is entered in the index.
EndSpec ==
    /\ index.specEntry # NoIndex /\ index.at = Len(index.specDef.versions)
    /\ index.specs = <<>>
    /\ index' = [index EXCEPT !.specs = (index.specDef.name :> index.specEntry)]
    /\ UNCHANGED <<unit, aggState, truth, emitted, prior, cursor, pc, table, doc, result,
                   tree, text, again, join>>

NextIndex == BeginSpec \/ AddVersion \/ EndSpec

SpecIndex == InitIndex /\ [][NextIndex]_vars

Generated == index.specs # <<>>

GeneratedEntry == index.specs[index.specDef.name]

(***************************************************************************)
(* C30  Index latest is a listed stable version: when the spec has a       *)
(* stable version, latest of its generated entry is the display name of    *)
(* the first stable version in declaration order (v1-0 displayed as v1.0), *)
(* is a key of the entry's versions, and the version under that key has    *)
(* status stable; latest is next only when the spec has no stable version. *)
(***************************************************************************)
IndexLatestIsStable ==
    Generated =>
        LET vs == index.specDef.versions
            latest == GeneratedEntry.latest
        IN  /\ (\E i \in 1..Len(vs) : vs[i].stable)
                  => /\ \E i \in 1..Len(vs) :
                          /\ vs[i].stable /\ \A j \in 1..(i - 1) : ~vs[j].stable
                          /\ latest = (IF vs[i].version = "v1-0" THEN "v1.0" ELSE vs[i].version)
                     /\ latest \in DOMAIN GeneratedEntry.versions
                     /\ GeneratedEntry.versions[latest].status = "stable"
            /\ latest = "next" => \A i \in 1..Len(vs) : ~vs[i].stable

\* The index of the registered lifecycle spec has been generated: latest is v1.0.
IndexLatestWitness ==
    /\ Generated
    /\ index.specDef = [name |-> "lifecycle", versions |-> lifecycleVersions]
    /\ GeneratedEntry.latest = "v1.0"
    /\ GeneratedEntry.versions["v1.0"].status = "stable"
    /\ GeneratedEntry.versions["next"].status = "unstable"

====
